---- MODULE Spec2Model ----
(***************************************************************************)
(* The hotels resource of the drivent back end: the router's middleware    *)
(* chain, the two controllers, the hotels service with its eligibility     *)
(* decision (isAllowed), and the repositories the service reads.           *)
(*                                                                         *)
(* Nullable values (undefined / null in the source) are sequences of       *)
(* length 0 or 1; strings that the code inspects character by character    *)
(* (the hotelId path parameter) are sequences of one-character strings.    *)
(***************************************************************************)
EXTENDS Integers, Sequences, FiniteSets, TLC

VARIABLES
    users,      \* rows of User with their Enrollment -> Ticket -> TicketType, in storage order
    hotels,     \* rows of Hotel, ascending by id
    rooms,      \* rows of Room, ascending by id
    now,        \* the storage clock that stamps createdAt / updatedAt
    pc,         \* "idle" | "routing" | "done": where the request in flight stands
    step,       \* index of the next handler in the route's middleware chain
    req,        \* the request: route, credential, raw hotelId parameter, userId
    res,        \* the responses sent for the request, in order
    service,    \* which build of the hotels service served the request
    fetched,    \* the user record isAllowed got from the repository (0 or 1 element)
    allowed,    \* the eligibility decision: "none" | "true" | "false" | "threw"
    thrown,     \* name of the error the service call threw, or "none"
    calls       \* the service and repository calls made for the request, in order

vars == <<users, hotels, rooms, now, pc, step, req, res, service, fetched, allowed, thrown, calls>>

storage == <<users, hotels, rooms, now>>
history == <<service, fetched, allowed, thrown, calls>>

-----------------------------------------------------------------------------
(* Bounds of the model *)

MaxUsers == 2
MaxEnrollments == 1
MaxTickets == 1
MaxOwnEnrollments == 2
MaxOwnTickets == 2
MaxHotels == 2
MaxRooms == 2
MaxTime == 2
MaxIdLen == 2

-----------------------------------------------------------------------------
(* Values *)

PAID == "PAID"
RESERVED == "RESERVED"
TicketStatus == {RESERVED, PAID}

TicketTypes == [isRemote : BOOLEAN, includesHotel : BOOLEAN]

OK == 200
BAD_REQUEST == 400
UNAUTHORIZED == 401
FORBIDDEN == 403
NOT_FOUND == 404

HotelNames == <<"Ibis", "Plaza">>

DigitChars == {"1"}
OtherChars == {"a"}
Chars == DigitChars \cup OtherChars

RECURSIVE StringsOfLen(_)
StringsOfLen(n) ==
    IF n = 0 THEN {<<>>}
    ELSE {Append(s, c) : s \in StringsOfLen(n - 1), c \in Chars}

RawIds == UNION {StringsOfLen(n) : n \in 1..MaxIdLen}

Digits09 == {"0", "1", "2", "3", "4", "5", "6", "7", "8", "9"}

DigitValue(c) ==
    CASE c = "0" -> 0 [] c = "1" -> 1 [] c = "2" -> 2 [] c = "3" -> 3 [] c = "4" -> 4
      [] c = "5" -> 5 [] c = "6" -> 6 [] c = "7" -> 7 [] c = "8" -> 8 [] OTHER -> 9

-----------------------------------------------------------------------------
(* Awaited repository calls: a promise resolves with a value or rejects *)

Resolved(v) == [ok |-> TRUE, value |-> v]
Rejected == [ok |-> FALSE, value |-> <<>>]

(* user-repository: prisma.user.findFirst with the Enrollment -> Ticket ->
   TicketType include and no `where` and no `orderBy`: the userId argument is
   not used, and the row returned is whichever row storage yields first
   (null when the table is empty). *)
findUserWithTicketTypeByUserId(userId) ==
    IF users = <<>> THEN {Resolved(<<>>), Rejected}
    ELSE {Resolved(<<users[i]>>) : i \in DOMAIN users} \cup {Rejected}

(* hotel-repository (not among the sources): the hotel rows, ascending by id *)
findHotels == {Resolved(hotels), Rejected}

RoomsOf(hotelId) == SelectSeq(rooms, LAMBDA r : r.hotelId = hotelId)

WithRooms(hotel) ==
    [id |-> hotel.id, name |-> hotel.name, image |-> hotel.image,
     createdAt |-> hotel.createdAt, updatedAt |-> hotel.updatedAt,
     Rooms |-> RoomsOf(hotel.id)]

(* hotel-repository (not among the sources): the hotel with that id and its
   rooms, or null; a NaN id is refused by the client *)
findHotelWithRoomsById(hotelId) ==
    IF hotelId = <<>> THEN {Rejected}
    ELSE LET found == SelectSeq(hotels, LAMBDA h : h.id = hotelId[1])
         IN  {Resolved(IF found = <<>> THEN <<>> ELSE <<WithRooms(found[1])>>), Rejected}

-----------------------------------------------------------------------------
(* errors (not among the sources): the error objects the service throws *)

forbiddenError == "ForbiddenError"
notFoundError == "NotFoundError"
TypeError == "TypeError"
PrismaClientError == "PrismaClientError"

Return(v, a, cs) == [kind |-> "return", value |-> v, error |-> "none", allowed |-> a, calls |-> cs]
Throw(e, a, cs) == [kind |-> "throw", value |-> <<>>, error |-> e, allowed |-> a, calls |-> cs]

-----------------------------------------------------------------------------
(* hotels-service *)

(* x?.[0] on a list that is there: its first element, or undefined *)
First(list) == IF list = <<>> THEN <<>> ELSE <<list[1]>>

(* the decision without the includesHotel conjunct *)
IsPaidAndHostable_noHotelCheck(ticketWithTicketType, ticketType) ==
    LET isPaidTicket == ticketWithTicketType.status = PAID
        isHostableTicket == ~ticketType.isRemote
    IN  isPaidTicket /\ isHostableTicket

IsPaidAndHostable(ticketWithTicketType, ticketType) ==
    LET isPaidTicket == ticketWithTicketType.status = PAID
        isHostableTicket == (~ticketType.isRemote) /\ ticketType.includesHotel
    IN  isPaidTicket /\ isHostableTicket

Qualifies(ticket) ==
    /\ ticket.status = PAID
    /\ ticket.TicketType # <<>>
    /\ ~ticket.TicketType[1].isRemote
    /\ ticket.TicketType[1].includesHotel

(* the decision taken over every ticket of every enrollment *)
isAllowed_anyTicket(userFetch) ==
    IF ~userFetch.ok THEN [error |-> "PrismaClientError", result |-> FALSE]
    ELSE IF userFetch.value = <<>> THEN [error |-> "TypeError", result |-> FALSE]
    ELSE
      LET user == userFetch.value[1]
      IN  [error |-> "none",
           result |-> \E e \in DOMAIN user.Enrollment :
                        \E t \in DOMAIN user.Enrollment[e].Ticket :
                          Qualifies(user.Enrollment[e].Ticket[t])]

(* isAllowed of services/hotels-service/index.ts on the awaited user record:
   [error, result], error "none" when it returns *)
isAllowed(userFetch) ==
    IF ~userFetch.ok THEN [error |-> PrismaClientError, result |-> FALSE]
    ELSE IF userFetch.value = <<>> THEN [error |-> TypeError, result |-> FALSE]
    ELSE
      LET userWithTicketTypeByUserId == userFetch.value[1]
          enrollment == First(userWithTicketTypeByUserId.Enrollment)
          ticketWithTicketType ==
              IF enrollment = <<>> THEN <<>> ELSE First(enrollment[1].Ticket)
          ticketType ==
              IF ticketWithTicketType = <<>> THEN <<>>
              ELSE ticketWithTicketType[1].TicketType
      IN  IF ticketType = <<>> THEN [error |-> "none", result |-> FALSE]
          ELSE IF ~IsPaidAndHostable(ticketWithTicketType[1], ticketType[1])
               THEN [error |-> "none", result |-> FALSE]
          ELSE [error |-> "none", result |-> TRUE]

(* isAllowed of the other build of the service (unnamed/part_001):
   Enrollment?.[0].Ticket?.[0] reads .Ticket of undefined when the list is empty *)
isAllowed_part001(userFetch) ==
    IF ~userFetch.ok THEN [error |-> PrismaClientError, result |-> FALSE]
    ELSE IF userFetch.value = <<>> THEN [error |-> TypeError, result |-> FALSE]
    ELSE
      LET userWithTicketTypeByUserId == userFetch.value[1]
          enrollment == First(userWithTicketTypeByUserId.Enrollment)
      IN  IF enrollment = <<>> THEN [error |-> TypeError, result |-> FALSE]
          ELSE
            LET ticketWithTicketType == First(enrollment[1].Ticket)
                ticketType ==
                    IF ticketWithTicketType = <<>> THEN <<>>
                    ELSE ticketWithTicketType[1].TicketType
            IN  IF ticketType = <<>> THEN [error |-> "none", result |-> FALSE]
                ELSE IF ~IsPaidAndHostable(ticketWithTicketType[1], ticketType[1])
                     THEN [error |-> "none", result |-> FALSE]
                ELSE [error |-> "none", result |-> TRUE]

Decision(a) ==
    IF a.error = PrismaClientError THEN "none"
    ELSE IF a.error # "none" THEN "threw"
    ELSE IF a.result THEN "true" ELSE "false"

FindUserCall == "findUserWithTicketTypeByUserId"
FindHotelsCall == "findHotels"
FindHotelCall == "findHotelWithRoomsById"

(* the service's getHotels, given what its two awaited fetches settle with *)
GetHotelsWith(a, hotelsFetch) ==
    IF a.error # "none" THEN Throw(a.error, Decision(a), <<FindUserCall>>)
    ELSE IF ~a.result THEN Throw(forbiddenError, "false", <<FindUserCall>>)
    ELSE IF ~hotelsFetch.ok
         THEN Throw(PrismaClientError, "true", <<FindUserCall, FindHotelsCall>>)
    ELSE Return(<<hotelsFetch.value>>, "true", <<FindUserCall, FindHotelsCall>>)

(* getHotels treating an empty hotel list as not found *)
hotelService_getHotels_emptyIsError(userFetch, hotelsFetch) ==
    LET out == GetHotelsWith(isAllowed(userFetch), hotelsFetch)
    IN  IF out.kind = "return" /\ out.value[1] = <<>>
        THEN Throw(notFoundError, out.allowed, out.calls)
        ELSE out

hotelService_getHotels(userFetch, hotelsFetch) ==
    GetHotelsWith(isAllowed(userFetch), hotelsFetch)

part001_getHotels(userFetch, hotelsFetch) ==
    GetHotelsWith(isAllowed_part001(userFetch), hotelsFetch)

(* getHotelWithRooms looking the hotel up before it decides eligibility *)
hotelService_getHotelWithRooms_lookupFirst(userFetch, hotelFetch) ==
    LET a == isAllowed(userFetch)
    IN  IF ~hotelFetch.ok THEN Throw(PrismaClientError, "none", <<FindHotelCall>>)
        ELSE IF hotelFetch.value = <<>>
             THEN Throw(notFoundError, Decision(a), <<FindHotelCall, FindUserCall>>)
        ELSE IF a.error # "none"
             THEN Throw(a.error, Decision(a), <<FindHotelCall, FindUserCall>>)
        ELSE IF ~a.result
             THEN Throw(forbiddenError, "false", <<FindHotelCall, FindUserCall>>)
        ELSE Return(hotelFetch.value, "true", <<FindHotelCall, FindUserCall>>)

(* getHotelWithRooms throwing the forbidden error for an absent hotel *)
hotelService_getHotelWithRooms_wrongError(userFetch, hotelFetch) ==
    LET a == isAllowed(userFetch)
    IN  IF a.error # "none" THEN Throw(a.error, Decision(a), <<FindUserCall>>)
        ELSE IF ~a.result THEN Throw(forbiddenError, "false", <<FindUserCall>>)
        ELSE IF ~hotelFetch.ok
             THEN Throw(PrismaClientError, "true", <<FindUserCall, FindHotelCall>>)
        ELSE IF hotelFetch.value = <<>>
             THEN Throw(forbiddenError, "true", <<FindUserCall, FindHotelCall>>)
        ELSE Return(hotelFetch.value, "true", <<FindUserCall, FindHotelCall>>)

(* the service's getHotelWithRooms, given what its two awaited fetches settle with *)
hotelService_getHotelWithRooms(userFetch, hotelFetch) ==
    LET a == isAllowed(userFetch)
    IN  IF a.error # "none" THEN Throw(a.error, Decision(a), <<FindUserCall>>)
        ELSE IF ~a.result THEN Throw(forbiddenError, "false", <<FindUserCall>>)
        ELSE IF ~hotelFetch.ok
             THEN Throw(PrismaClientError, "true", <<FindUserCall, FindHotelCall>>)
        ELSE IF hotelFetch.value = <<>>
             THEN Throw(notFoundError, "true", <<FindUserCall, FindHotelCall>>)
        ELSE Return(hotelFetch.value, "true", <<FindUserCall, FindHotelCall>>)

-----------------------------------------------------------------------------
(* schemas, parameter parsing and serialisation *)

(* Joi.string().pattern(/^[0-9]+$/).required() on params.hotelId *)
getHotelWithRoomsSchema(hotelId) ==
    /\ Len(hotelId) >= 1
    /\ \A i \in DOMAIN hotelId : hotelId[i] \in Digits09

RECURSIVE DecimalValue(_)
DecimalValue(s) ==
    IF s = <<>> THEN 0
    ELSE 10 * DecimalValue(SubSeq(s, 1, Len(s) - 1)) + DigitValue(s[Len(s)])

(* Number(req.params.hotelId): the decimal value of a digit string, NaN
   (no element) for the other strings of the alphabet *)
Number(s) ==
    IF s # <<>> /\ \A i \in DOMAIN s : s[i] \in Digits09
    THEN <<DecimalValue(s)>> ELSE <<>>

(* Date.prototype.toISOString as JSON serialisation applies it *)
toISOString(t) == "T" \o ToString(t) \o "Z"

HotelJSON(h) ==
    [id |-> h.id, name |-> h.name, image |-> h.image,
     createdAt |-> toISOString(h.createdAt), updatedAt |-> toISOString(h.updatedAt)]

RoomJSON(r) ==
    [id |-> r.id, name |-> r.name, capacity |-> r.capacity, hotelId |-> r.hotelId,
     createdAt |-> toISOString(r.createdAt), updatedAt |-> toISOString(r.updatedAt)]

HotelsJSON(list) == [i \in DOMAIN list |-> HotelJSON(list[i])]

HotelWithRoomsJSON(h) ==
    [id |-> h.id, name |-> h.name, image |-> h.image,
     createdAt |-> toISOString(h.createdAt), updatedAt |-> toISOString(h.updatedAt),
     Rooms |-> [i \in DOMAIN h.Rooms |-> RoomJSON(h.Rooms[i])]]

-----------------------------------------------------------------------------
(* hotels-router and hotels-controller *)

(* the router without the parameter validation on /:hotelId *)
hotelsRouter_noValidation(route) ==
    IF route = "list" THEN <<"authenticateToken", "getHotels">>
    ELSE <<"authenticateToken", "getHotelWithRooms">>

(* the handlers a request of the route passes, in order *)
hotelsRouter(route) ==
    IF route = "list" THEN <<"authenticateToken", "getHotels">>
    ELSE <<"authenticateToken", "validateParams", "getHotelWithRooms">>

Handler == hotelsRouter(req.route)[step]

Reply(status, body) == [status |-> status, body |-> body]

(* what the getHotels controller sends for an outcome of the service call *)
getHotels_sends(out) ==
    IF out.kind = "return" THEN <<Reply(OK, <<HotelsJSON(out.value[1])>>)>>
    ELSE <<Reply(FORBIDDEN, <<>>)>>

(* the detail response with every room stamped with the hotel's timestamps *)
getHotelWithRooms_sends_hotelStamps(out) ==
    IF out.kind = "return"
    THEN LET h == out.value[1]
             stamped == [i \in DOMAIN h.Rooms |->
                            [h.Rooms[i] EXCEPT !.createdAt = h.createdAt,
                                               !.updatedAt = h.updatedAt]]
         IN  <<Reply(OK, <<HotelWithRoomsJSON([h EXCEPT !.Rooms = stamped])>>)>>
    ELSE IF out.error = "ForbiddenError" THEN <<Reply(FORBIDDEN, <<>>)>>
    ELSE IF out.error = "NotFoundError" THEN <<Reply(NOT_FOUND, <<>>)>>
    ELSE <<>>

(* what the getHotelWithRooms controller sends for an outcome of the service call *)
getHotelWithRooms_sends(out) ==
    IF out.kind = "return" THEN <<Reply(OK, <<HotelWithRoomsJSON(out.value[1])>>)>>
    ELSE IF out.error = "ForbiddenError" THEN <<Reply(FORBIDDEN, <<>>)>>
    ELSE IF out.error = "NotFoundError" THEN <<Reply(NOT_FOUND, <<>>)>>
    ELSE <<>>

-----------------------------------------------------------------------------
(* Storage, written by the systems around the hotels resource *)

RECURSIVE SumOf(_, _)
SumOf(f, n) == IF n = 0 THEN 0 ELSE f[n] + SumOf(f, n - 1)

EnrollmentRows == SumOf([u \in DOMAIN users |-> Len(users[u].Enrollment)], Len(users))

TicketsOf(user) ==
    SumOf([e \in DOMAIN user.Enrollment |-> Len(user.Enrollment[e].Ticket)],
          Len(user.Enrollment))

TicketRows == SumOf([u \in DOMAIN users |-> TicketsOf(users[u])], Len(users))

createUser ==
    /\ pc = "idle"
    /\ Len(users) < MaxUsers
    /\ users' = Append(users, [id |-> Len(users) + 1, Enrollment |-> <<>>])
    /\ UNCHANGED <<hotels, rooms, now, pc, step, req, res, history>>

createEnrollmentWithAddress(u, limit) ==
    /\ pc = "idle"
    /\ EnrollmentRows < limit
    /\ users' = [users EXCEPT ![u].Enrollment = Append(@, [Ticket |-> <<>>])]
    /\ UNCHANGED <<hotels, rooms, now, pc, step, req, res, history>>

createTicket(u, e, ticketType, status, limit) ==
    /\ pc = "idle"
    /\ TicketRows < limit
    /\ users' = [users EXCEPT ![u].Enrollment[e].Ticket =
                    Append(@, [status |-> status, TicketType |-> <<ticketType>>])]
    /\ UNCHANGED <<hotels, rooms, now, pc, step, req, res, history>>

NewRoom(hotelId) ==
    [id |-> Len(rooms) + 1, name |-> "101", capacity |-> 2, hotelId |-> hotelId,
     createdAt |-> now, updatedAt |-> now]

NewHotel ==
    [id |-> Len(hotels) + 1,
     name |-> HotelNames[(Len(hotels) % Len(HotelNames)) + 1], image |-> "lobby.png",
     createdAt |-> now, updatedAt |-> now]

createHotel ==
    /\ pc = "idle"
    /\ Len(hotels) < MaxHotels
    /\ hotels' = Append(hotels, NewHotel)
    /\ UNCHANGED <<users, rooms, now, pc, step, req, res, history>>

createRoom(hotelId) ==
    /\ pc = "idle"
    /\ Len(rooms) < MaxRooms
    /\ rooms' = Append(rooms, NewRoom(hotelId))
    /\ UNCHANGED <<users, hotels, now, pc, step, req, res, history>>

updateHotel(h) ==
    /\ pc = "idle"
    /\ hotels[h].updatedAt < now
    /\ hotels' = [hotels EXCEPT ![h].updatedAt = now]
    /\ UNCHANGED <<users, rooms, now, pc, step, req, res, history>>

Tick ==
    /\ pc = "idle"
    /\ now < MaxTime
    /\ now' = now + 1
    /\ UNCHANGED <<users, hotels, rooms, pc, step, req, res, history>>

-----------------------------------------------------------------------------
(* A request through the router *)

Credentials == {0} \cup {users[u].id : u \in DOMAIN users}

Request(route, cred, hotelId) ==
    /\ pc = "idle"
    /\ req' = [route |-> route, cred |-> cred, hotelId |-> hotelId, userId |-> 0]
    /\ pc' = "routing"
    /\ step' = 1
    /\ res' = <<>>
    /\ service' = "none"
    /\ fetched' = <<>>
    /\ allowed' = "none"
    /\ thrown' = "none"
    /\ calls' = <<>>
    /\ UNCHANGED storage

(* middlewares (not among the sources): resolves the credential to req.userId
   and calls next(), or answers 401 *)
authenticateToken ==
    /\ pc = "routing"
    /\ Handler = "authenticateToken"
    /\ IF req.cred = 0
       THEN /\ res' = Append(res, Reply(UNAUTHORIZED, <<>>))
            /\ pc' = "done"
            /\ UNCHANGED <<req, step>>
       ELSE /\ req' = [req EXCEPT !.userId = req.cred]
            /\ step' = step + 1
            /\ UNCHANGED <<res, pc>>
    /\ UNCHANGED <<storage, history>>

(* middlewares (not among the sources): validates req.params against the
   schema and calls next(), or answers 400 *)
validateParams ==
    /\ pc = "routing"
    /\ Handler = "validateParams"
    /\ IF getHotelWithRoomsSchema(req.hotelId)
       THEN /\ step' = step + 1
            /\ UNCHANGED <<res, pc>>
       ELSE /\ res' = Append(res, Reply(BAD_REQUEST, <<>>))
            /\ pc' = "done"
            /\ UNCHANGED step
    /\ UNCHANGED <<storage, req, history>>

Served(build, userFetch, out, sends) ==
    /\ service' = build
    /\ fetched' = userFetch.value
    /\ allowed' = out.allowed
    /\ thrown' = out.error
    /\ calls' = out.calls
    /\ res' = res \o sends
    /\ pc' = "done"
    /\ UNCHANGED <<storage, req, step>>

(* controller getHotels over services/hotels-service/index.ts *)
getHotels ==
    /\ pc = "routing"
    /\ Handler = "getHotels"
    /\ \E userFetch \in findUserWithTicketTypeByUserId(req.userId), hotelsFetch \in findHotels :
         LET out == hotelService_getHotels(userFetch, hotelsFetch)
         IN  Served("index", userFetch, out, getHotels_sends(out))

(* controller getHotels over the build of the service in unnamed/part_001 *)
getHotels_part001 ==
    /\ pc = "routing"
    /\ Handler = "getHotels"
    /\ \E userFetch \in findUserWithTicketTypeByUserId(req.userId), hotelsFetch \in findHotels :
         LET out == part001_getHotels(userFetch, hotelsFetch)
         IN  Served("part_001", userFetch, out, getHotels_sends(out))

(* controller getHotelWithRooms *)
getHotelWithRooms ==
    /\ pc = "routing"
    /\ Handler = "getHotelWithRooms"
    /\ LET hotelId == Number(req.hotelId)
       IN  \E userFetch \in findUserWithTicketTypeByUserId(req.userId),
              hotelFetch \in findHotelWithRoomsById(hotelId) :
             LET out == hotelService_getHotelWithRooms(userFetch, hotelFetch)
             IN  Served("index", userFetch, out, getHotelWithRooms_sends(out))

Requests ==
    \/ \E cred \in Credentials : Request("list", cred, <<>>)
    \/ \E cred \in Credentials, hotelId \in RawIds : Request("detail", cred, hotelId)
    \/ authenticateToken
    \/ validateParams
    \/ getHotels
    \/ getHotels_part001
    \/ getHotelWithRooms

-----------------------------------------------------------------------------
(* Specifications *)

NoRequest ==
    /\ pc = "idle"
    /\ step = 1
    /\ req = [route |-> "list", cred |-> 0, hotelId |-> <<>>, userId |-> 0]
    /\ res = <<>>
    /\ service = "none"
    /\ fetched = <<>>
    /\ allowed = "none"
    /\ thrown = "none"
    /\ calls = <<>>

Hotel1 == [id |-> 1, name |-> "Ibis", image |-> "lobby.png", createdAt |-> 1, updatedAt |-> 1]
Room1 == [id |-> 1, name |-> "101", capacity |-> 2, hotelId |-> 1, createdAt |-> 1, updatedAt |-> 1]

(* users, enrollments and tickets vary; the hotels are none, or one with a room *)
Init ==
    /\ users = <<>>
    /\ \/ hotels = <<>> /\ rooms = <<>>
       \/ hotels = <<Hotel1>> /\ rooms = <<Room1>>
    /\ now = 1
    /\ NoRequest

Next ==
    \/ createUser
    \/ \E u \in DOMAIN users : createEnrollmentWithAddress(u, MaxEnrollments)
    \/ \E u \in DOMAIN users : \E e \in DOMAIN users[u].Enrollment :
         \E ticketType \in TicketTypes, status \in TicketStatus :
           createTicket(u, e, ticketType, status, MaxTickets)
    \/ Requests

Spec == Init /\ [][Next]_vars

Hostable == [isRemote |-> FALSE, includesHotel |-> TRUE]

UserWith(tickets) == [id |-> 1, Enrollment |-> <<[Ticket |-> tickets]>>]

(* hotels and rooms vary; the one user holds a paid hostable ticket *)
InitHotels ==
    /\ users = <<UserWith(<<[status |-> PAID, TicketType |-> <<Hostable>>]>>)>>
    /\ hotels = <<>>
    /\ rooms = <<>>
    /\ now = 1
    /\ NoRequest

NextHotels ==
    \/ createHotel
    \/ \E h \in DOMAIN hotels : createRoom(hotels[h].id)
    \/ \E h \in DOMAIN hotels : updateHotel(h)
    \/ Tick
    \/ Request("list", 1, <<>>)
    \/ \E hotelId \in RawIds : Request("detail", 1, hotelId)
    \/ authenticateToken
    \/ validateParams
    \/ getHotels
    \/ getHotelWithRooms

SpecHotels == InitHotels /\ [][NextHotels]_vars

(* one user; the user's enrollments and tickets vary *)
InitTickets ==
    /\ users = <<[id |-> 1, Enrollment |-> <<>>]>>
    /\ hotels = <<Hotel1>>
    /\ rooms = <<Room1>>
    /\ now = 1
    /\ NoRequest

NextTickets ==
    \/ createEnrollmentWithAddress(1, MaxOwnEnrollments)
    \/ \E e \in DOMAIN users[1].Enrollment :
         \E ticketType \in TicketTypes, status \in TicketStatus :
           createTicket(1, e, ticketType, status, MaxOwnTickets)
    \/ Request("list", 1, <<>>)
    \/ Request("detail", 1, <<"1">>)
    \/ authenticateToken
    \/ validateParams
    \/ getHotels
    \/ getHotels_part001
    \/ getHotelWithRooms

SpecTickets == InitTickets /\ [][NextTickets]_vars

-----------------------------------------------------------------------------
(* Properties *)

(* a controller ran for the request and returned *)
Handled == pc = "done" /\ service # "none"

(* exactly one response was sent, with this status *)
Sent(status) == Len(res) = 1 /\ res[1].status = status

(* the ticket context of a user record: the first enrollment's first ticket
   when it has a ticket type, else nothing *)
TicketContext(user) ==
    IF user.Enrollment = <<>> THEN <<>>
    ELSE IF user.Enrollment[1].Ticket = <<>> THEN <<>>
    ELSE IF user.Enrollment[1].Ticket[1].TicketType = <<>> THEN <<>>
    ELSE <<user.Enrollment[1].Ticket[1]>>

FetchedContext == IF fetched = <<>> THEN <<>> ELSE TicketContext(fetched[1])

(* C1: whenever the fetched ticket context is present, the decision is true
   exactly when the ticket is PAID, its type is not remote and its type includes
   hotel; with any one of the three flipped the decision is false and the
   request is answered 403. *)
C1_EligibleIffPaidNotRemoteWithHotel ==
    (Handled /\ FetchedContext # <<>>) =>
        LET ticket == FetchedContext[1]
            all3 == /\ ticket.status = PAID
                    /\ ticket.TicketType[1].isRemote = FALSE
                    /\ ticket.TicketType[1].includesHotel = TRUE
        IN  /\ allowed \in {"true", "false"}
            /\ (allowed = "true") <=> all3
            /\ ~all3 => (Sent(FORBIDDEN) /\ thrown = forbiddenError)

(* C1 witness: a paid, non-remote ticket whose type does not include hotel was
   decided and the request was answered 403 *)
C1_Witness ==
    /\ Handled
    /\ FetchedContext # <<>>
    /\ FetchedContext[1].status = PAID
    /\ ~FetchedContext[1].TicketType[1].isRemote
    /\ ~FetchedContext[1].TicketType[1].includesHotel
    /\ Sent(FORBIDDEN)

HotelExists(id) == \E h \in DOMAIN hotels : hotels[h].id = id

RequestedId == Number(req.hotelId)

(* C2: in getHotelWithRooms a false decision ends in 403 with no hotel lookup
   made, whether or not the requested hotel exists; 404 is answered only after
   a true decision. *)
C2_EligibilityBeforeExistence ==
    (Handled /\ req.route = "detail") =>
        /\ allowed = "false" =>
              /\ Sent(FORBIDDEN)
              /\ \A i \in DOMAIN calls : calls[i] # FindHotelCall
        /\ Sent(NOT_FOUND) => allowed = "true"
        /\ calls # <<>> /\ calls[1] = FindUserCall

(* C2 witness: a refused request for a hotel id that does not exist *)
C2_Witness ==
    /\ Handled
    /\ req.route = "detail"
    /\ allowed = "false"
    /\ RequestedId # <<>>
    /\ ~HotelExists(RequestedId[1])
    /\ Sent(FORBIDDEN)

(* the requesting user's own record *)
OwnRecord == users[req.userId]

OwnEligible ==
    /\ TicketContext(OwnRecord) # <<>>
    /\ Qualifies(TicketContext(OwnRecord)[1])

(* C3: the decision for a request of user U is a function of U's own records:
   it is true exactly when U's own ticket context qualifies, whatever the
   other stored users hold. *)
C3_DecisionFromOwnRecords ==
    (Handled /\ allowed \in {"true", "false"}) => ((allowed = "true") <=> OwnEligible)

(* C4: a user record with a missing link in the enrollment -> ticket -> ticket
   type chain makes the decision return false without an exception, and the
   request is answered 403 through the forbidden error. *)
C4_AbsenceIsFalseNotException ==
    (Handled /\ fetched # <<>> /\ FetchedContext = <<>>) =>
        /\ allowed = "false"
        /\ thrown = forbiddenError
        /\ Sent(FORBIDDEN)

(* C5: a fetch that fails with an infrastructure error is never answered
   403 or 404. *)
C5_InfrastructureFailureNotClassified ==
    (pc = "done" /\ thrown = PrismaClientError) =>
        \A i \in DOMAIN res : res[i].status \notin {FORBIDDEN, NOT_FOUND}

(* C6: every request whose handling has finished got exactly one response. *)
C6_ExactlyOneResponse ==
    pc = "done" => Len(res) = 1

(* the stored hotel with this id, and its stored rooms in id order *)
StoredHotel(id) == hotels[CHOOSE h \in DOMAIN hotels : hotels[h].id = id]
StoredRooms(id) == SelectSeq(rooms, LAMBDA r : r.hotelId = id)

(* C7: after a true decision and a hotel lookup that completed,
   getHotelWithRooms is answered 404 exactly when no stored hotel has the
   requested id, and 200 with that hotel (its room list possibly empty) when
   one has. *)
C7_NotFoundIffNoSuchHotel ==
    (Handled /\ req.route = "detail" /\ allowed = "true" /\ thrown # PrismaClientError) =>
        LET id == RequestedId[1]
        IN  /\ Sent(NOT_FOUND) <=> ~HotelExists(id)
            /\ thrown = notFoundError <=> ~HotelExists(id)
            /\ HotelExists(id) =>
                  /\ Sent(OK)
                  /\ res[1].body[1].id = id
                  /\ Len(res[1].body[1].Rooms) = Len(StoredRooms(id))

(* C7 witness: hotels are stored, none has the requested id, and the eligible
   user is answered 404 *)
C7_Witness ==
    /\ Handled
    /\ req.route = "detail"
    /\ allowed = "true"
    /\ hotels # <<>>
    /\ ~HotelExists(RequestedId[1])
    /\ Sent(NOT_FOUND)

AnyTicketQualifies(user) ==
    \E e \in DOMAIN user.Enrollment :
      \E t \in DOMAIN user.Enrollment[e].Ticket : Qualifies(user.Enrollment[e].Ticket[t])

FirstTicketQualifies(user) ==
    /\ user.Enrollment # <<>>
    /\ user.Enrollment[1].Ticket # <<>>
    /\ Qualifies(user.Enrollment[1].Ticket[1])

(* C8 as stated: the decision is true exactly when at least one ticket of the
   user record, in any enrollment and at any position, is PAID with a type
   that is not remote and includes hotel. *)
C8_AnyTicketAdmits ==
    (Handled /\ fetched # <<>>) => ((allowed = "true") <=> AnyTicketQualifies(fetched[1]))

(* C8 amended: the decision is true exactly when the first ticket of the first
   enrollment of the fetched user record is PAID with a type that is not
   remote and includes hotel; when that ticket does not qualify the request is
   answered 403 whatever the other tickets are. *)
C8_FirstTicketDecides ==
    (Handled /\ fetched # <<>>) =>
        /\ (allowed = "true") <=> FirstTicketQualifies(fetched[1])
        /\ ~FirstTicketQualifies(fetched[1]) => Sent(FORBIDDEN)

(* C8 witness: the first ticket does not qualify, another ticket does, and the
   request is answered 403 *)
C8_Witness ==
    /\ Handled
    /\ fetched # <<>>
    /\ ~FirstTicketQualifies(fetched[1])
    /\ AnyTicketQualifies(fetched[1])
    /\ Sent(FORBIDDEN)

IsDigits(s) == s # <<>> /\ \A i \in DOMAIN s : s[i] \in Digits09

(* C9: on /:hotelId a request without a valid credential is answered 401
   whatever the id; an authenticated request whose id is not all digits is
   answered 400; in both cases the service is not called; and the service is
   only ever called for an authenticated user with a numeric id. *)
C9_AuthThenFormatThenService ==
    (req.route = "detail") =>
        /\ (pc = "done" /\ req.cred = 0) => (Sent(UNAUTHORIZED) /\ calls = <<>>)
        /\ (pc = "done" /\ req.cred # 0 /\ ~IsDigits(req.hotelId)) =>
              (Sent(BAD_REQUEST) /\ calls = <<>>)
        /\ (service # "none" \/ calls # <<>>) =>
              /\ req.cred # 0
              /\ req.userId = req.cred
              /\ IsDigits(req.hotelId)
              /\ RequestedId # <<>>

(* C9 witness: an authenticated user who holds no qualifying ticket (nor does
   any stored user) sends a malformed id and is answered 400 *)
C9_Witness ==
    /\ pc = "done"
    /\ req.route = "detail"
    /\ req.cred # 0
    /\ req.hotelId = <<"1", "a">>
    /\ \A u \in DOMAIN users : ~FirstTicketQualifies(users[u])
    /\ Sent(BAD_REQUEST)

HotelFieldsAre(body, h) ==
    /\ body.id = h.id
    /\ body.name = h.name
    /\ body.image = h.image
    /\ body.createdAt = toISOString(h.createdAt)
    /\ body.updatedAt = toISOString(h.updatedAt)

RoomFieldsAre(entry, r) ==
    /\ entry.id = r.id
    /\ entry.name = r.name
    /\ entry.capacity = r.capacity
    /\ entry.hotelId = r.hotelId

DetailAnswered == Handled /\ req.route = "detail" /\ Sent(OK)

(* C10 as stated: the detail result holds the hotel's fields and one entry for
   each of its N rooms, each entry with the room's id, name, capacity and
   hotelId and with the hotel's createdAt and updatedAt. *)
C10_RoomsCarryHotelTimestamps ==
    DetailAnswered =>
        LET body == res[1].body[1]
            h == StoredHotel(RequestedId[1])
            rs == StoredRooms(h.id)
        IN  /\ HotelFieldsAre(body, h)
            /\ Len(body.Rooms) = Len(rs)
            /\ \A i \in DOMAIN rs :
                  /\ RoomFieldsAre(body.Rooms[i], rs[i])
                  /\ body.Rooms[i].createdAt = toISOString(h.createdAt)
                  /\ body.Rooms[i].updatedAt = toISOString(h.updatedAt)

(* C10 amended: the detail result holds the hotel's fields and one entry for
   each of its N rooms, each entry with the room's id, name, capacity and
   hotelId and with the room's own createdAt and updatedAt. *)
C10_RoomsCarryOwnTimestamps ==
    DetailAnswered =>
        LET body == res[1].body[1]
            h == StoredHotel(RequestedId[1])
            rs == StoredRooms(h.id)
        IN  /\ HotelFieldsAre(body, h)
            /\ Len(body.Rooms) = Len(rs)
            /\ \A i \in DOMAIN rs :
                  /\ RoomFieldsAre(body.Rooms[i], rs[i])
                  /\ body.Rooms[i].createdAt = toISOString(rs[i].createdAt)
                  /\ body.Rooms[i].updatedAt = toISOString(rs[i].updatedAt)

(* C10 witness: a detail answer for a hotel with a room that was stored later
   than the hotel *)
C10_Witness ==
    /\ DetailAnswered
    /\ \E i \in DOMAIN rooms :
         /\ rooms[i].hotelId = RequestedId[1]
         /\ rooms[i].createdAt # StoredHotel(RequestedId[1]).createdAt

HotelFieldNames == {"id", "name", "image", "createdAt", "updatedAt"}

(* C11: after a true decision and a hotel fetch that completed, getHotels is
   answered 200 with one entry per stored hotel, in storage order, each entry
   holding exactly that hotel's id, name, image, createdAt and updatedAt; with
   no hotel stored the answer is 200 with the empty list. *)
C11_ListIsStoredHotels ==
    (Handled /\ req.route = "list" /\ allowed = "true" /\ thrown # PrismaClientError) =>
        /\ thrown = "none"
        /\ Sent(OK)
        /\ Len(res[1].body) = 1
        /\ LET list == res[1].body[1]
           IN  /\ Len(list) = Len(hotels)
               /\ \A i \in DOMAIN hotels :
                     /\ DOMAIN list[i] = HotelFieldNames
                     /\ HotelFieldsAre(list[i], hotels[i])
        /\ calls = <<FindUserCall, FindHotelsCall>>

(* C11 witness: no hotel is stored and the eligible user is answered 200 with
   the empty list *)
C11_Witness ==
    /\ Handled
    /\ req.route = "list"
    /\ allowed = "true"
    /\ hotels = <<>>
    /\ Sent(OK)
    /\ res[1].body = << <<>> >>

====
